---- MODULE Spec2Model ----
(***************************************************************************)
(* A model of the vfhm crate: the parameter search of VfhmBuilder          *)
(* (src/src/builder.rs), the seed-hashed map v2::Vfhm (src/src/v2.rs), the *)
(* weight-table map Vfhm over a Lut (src/src/lib.rs) and MatchMap          *)
(* (src/src/match.rs).                                                     *)
(*                                                                         *)
(* Byte strings are sequences of byte values; every string of the model is *)
(* ASCII, so a string's chars() and its as_bytes() are the same sequence.  *)
(***************************************************************************)
EXTENDS Integers, Sequences, FiniteSets, TLC

(***************************************************************************)
(* Bounds of the model.                                                    *)
(***************************************************************************)
\* width of usize in bits in the model (mem::size_of::<usize>() * 8)
WordBits == 16
\* the largest max_iterations argument given to find_params
MaxIterations == 2300
\* values stored in the maps are 1..MaxVal
MaxVal == 2

\* Option<T>: None is the empty sequence, Some(x) the one-element sequence <<x>>
None == << >>
Some(x) == <<x>>

(***************************************************************************)
(* Machine arithmetic on usize.                                            *)
(***************************************************************************)
RECURSIVE Pow2(_)
Pow2(n) == IF n = 0 THEN 1 ELSE 2 * Pow2(n - 1)

UsizeMod == Pow2(WordBits)
USIZE_MAX == UsizeMod - 1

RECURSIVE BitAnd(_, _)
BitAnd(a, b) ==
  IF a = 0 \/ b = 0 THEN 0
  ELSE (a % 2) * (b % 2) + 2 * BitAnd(a \div 2, b \div 2)

RECURSIVE BitOr(_, _)
BitOr(a, b) ==
  IF a = 0 THEN b
  ELSE IF b = 0 THEN a
  ELSE (IF a % 2 = 1 \/ b % 2 = 1 THEN 1 ELSE 0) + 2 * BitOr(a \div 2, b \div 2)

Shr(x, n) == x \div Pow2(n)
Shl(x, n) == (x * Pow2(n)) % UsizeMod

\* (x as f64).sqrt() as usize, for the small x the search reaches
Isqrt(x) == CHOOSE r \in 0..x : r * r <= x /\ (r + 1) * (r + 1) > x

IsPow2(n) == \E e \in 0..WordBits : n = Pow2(e)

(***************************************************************************)
(* Byte strings.                                                           *)
(***************************************************************************)
Str_empty == << >>
Str_a == <<97>>
Str_b == <<98>>
Str_c == <<99>>
Str_ab == <<97, 98>>
Str_ba == <<98, 97>>
Str_ag == <<97, 103>>
Str_a0 == <<97, 0>>
Str_b0 == <<98, 0>>
Str_monday == <<109, 111, 110, 100, 97, 121>>
Str_sunday == <<115, 117, 110, 100, 97, 121>>
Str_tuesday == <<116, 117, 101, 115, 100, 97, 121>>
Str_saturday == <<115, 97, 116, 117, 114, 100, 97, 121>>
Str_thursday == <<116, 104, 117, 114, 115, 100, 97, 121>>
Str_firday == <<102, 105, 114, 100, 97, 121>>
Str_wednesday == <<119, 101, 100, 110, 101, 115, 100, 97, 121>>
Str_mon == <<109, 111, 110>>
Str_mondayx == <<109, 111, 110, 100, 97, 121, 120>>
Str_funday == <<102, 117, 110, 100, 97, 121>>
Str_friday == <<102, 114, 105, 100, 97, 121>>
Str_ww == <<119, 119>>
Str_day == <<100, 97, 121>>
Str_on == <<111, 110>>
Str_the == <<116, 104, 101>>
Str_many == <<109, 97, 110, 121>>
\* a one-character string holding the control character '\n'
Str_newline == <<10>>

Min(a, b) == IF a < b THEN a ELSE b
Max(a, b) == IF a > b THEN a ELSE b

(***************************************************************************)
(* VfhmParams(seed, mask, mask_offset, bounds) and the builder's default.  *)
(***************************************************************************)
VfhmParams(seed, mask, mask_offset, bounds) ==
  [seed |-> seed, mask |-> mask, mask_offset |-> mask_offset, bounds |-> bounds]

DefaultParams == VfhmParams(0, 1, 0, <<USIZE_MAX, 0>>)

mask_size(p) == Shr(p.mask, p.mask_offset) + 1

(***************************************************************************)
(* The map the builder constructs candidates with (crate::Vfhm with        *)
(* with_params / insert / get over VfhmParams).  Its source is not among   *)
(* the files of src/; it is modelled from the design text: the accumulator *)
(* starts at 1, each byte b makes it acc * b - seed (wrapping), the index  *)
(* is (acc & mask) >> mask_offset; get rejects by the length bounds, then  *)
(* compares the stored key; insert replaces the slot's occupant.           *)
(***************************************************************************)
RECURSIVE PHashAcc(_, _, _)
PHashAcc(bytes, seed, acc) ==
  IF bytes = << >> THEN acc
  ELSE PHashAcc(Tail(bytes), seed,
                (acc * Head(bytes) + UsizeMod - seed) % UsizeMod)

PVfhm_index(key, p) ==
  Shr(BitAnd(PHashAcc(key, p.seed, 1), p.mask), p.mask_offset)

PVfhm_with_params(p) == [i \in 0..(mask_size(p) - 1) |-> None]

PVfhm_insert(map, p, key, value) ==
  [map EXCEPT ![PVfhm_index(key, p)] = Some(<<key, value>>)]

PVfhm_get(map, p, key) ==
  IF ~(p.bounds[1] <= Len(key) /\ Len(key) <= p.bounds[2]) THEN None
  ELSE LET slot == map[PVfhm_index(key, p)]
       IN IF slot # None /\ slot[1][1] = key THEN Some(slot[1][2]) ELSE None

(***************************************************************************)
(* VfhmBuilder (src/src/builder.rs).                                       *)
(***************************************************************************)
VARIABLES
  scenario,    \* which program runs: "builder", "v2", "lut", "seed_hash",
               \* "bench_vfhm", "match", "basic", "readers"
  b_keys,      \* VfhmBuilder.keys
  b_params,    \* VfhmBuilder.params
  b_pc,        \* "ready", "running" (inside find_params), "returned", "panicked"
  b_max,       \* the max_iterations argument of the running / last find_params
  b_left,      \* iterations of the for loop still to run
  b_checks,    \* TRUE: the build has overflow checks (debug); FALSE: wrapping (release)
  v2_seed,     \* v2::Vfhm.seed
  v2_bounds,   \* v2::Vfhm.key_bounds
  v2_len,      \* length of v2::Vfhm.inner
  v2_inner,    \* v2::Vfhm.inner: the occupied slots, index -> <<key, value>>;
               \* every other index below v2_len holds None
  lut_inner,   \* Vfhm.inner of the weight-table map: index -> Option<value>
  g_written,   \* history: slot index -> <<key, value>> of the latest insert into
               \* the slot, absent when the slot was never written or was removed
  g_ref,       \* the reference std HashMap of the benches, given the same inserts:
               \* key -> value
  last,        \* the latest map operation and what it returned
  t_keys,      \* the key list of the running test
  t_pc,        \* the number of inserts the running test has made
  b_from,      \* history: b_pc at the moment of the running / last find_params
               \* call ("ready" after set_keys, "returned" after a call that
               \* returned)
  b_tried,     \* history: the seeds find_params has checked under the current
               \* (mask, mask_offset) during the running call, and whether the
               \* running call itself moved to this (mask, mask_offset)
  mm_values,   \* MatchMap.values
  mm_liner,    \* MatchMap.liner
  th           \* the reader threads: each one's position inside get

b_vars == <<b_keys, b_params, b_pc, b_max, b_left, b_checks, b_tried, b_from>>
m_vars == <<v2_seed, v2_bounds, v2_len, v2_inner, lut_inner, g_written, g_ref,
            last, t_keys, t_pc>>
o_vars == <<mm_values, mm_liner, th>>

\* the key sets handed to set_keys
BuilderKeyLists ==
  { << >>,
    <<Str_a>>,
    <<Str_a, Str_b>>,
    <<Str_ab, Str_ba>>,
    <<Str_a, Str_b, Str_c>>,
    <<Str_a0, Str_b0>>,
    <<Str_a, Str_a>> }

\* the max_iterations arguments
IterationChoices == {0, 1, 3, MaxIterations}

\* set_keys: lines 16-28
RECURSIVE set_keys_bounds(_, _)
set_keys_bounds(keys, bounds) ==
  IF keys = << >> THEN bounds
  ELSE set_keys_bounds(Tail(keys),
                       <<Min(Len(Head(keys)), bounds[1]),
                         Max(Len(Head(keys)), bounds[2])>>)

set_keys(keys) ==
  /\ scenario = "builder"
  /\ b_pc \in {"ready", "returned"}
  /\ b_params' = [b_params EXCEPT !.bounds = set_keys_bounds(keys, @)]
  /\ b_keys' = keys
  /\ b_pc' = "ready"
  /\ UNCHANGED <<b_max, b_left, b_checks, b_tried, b_from, scenario, m_vars, o_vars>>

\* find_params, lines 32-36: a fresh map, every key inserted with its position
RECURSIVE InsertAll(_, _, _, _)
InsertAll(map, p, keys, i) ==
  IF i > Len(keys) THEN map
  ELSE InsertAll(PVfhm_insert(map, p, keys[i], i - 1), p, keys, i + 1)

\* find_params, lines 38-43: the re-read of every key
round_trip_any(keys, p) ==
  LET map == InsertAll(PVfhm_with_params(p), p, keys, 1)
  IN \E i \in 1..Len(keys) : PVfhm_get(map, p, keys[i]) = Some(i - 1)

round_trip(keys, p) ==
  LET map == InsertAll(PVfhm_with_params(p), p, keys, 1)
  IN \A i \in 1..Len(keys) : PVfhm_get(map, p, keys[i]) = Some(i - 1)

\* find_params, lines 47-65: the next candidate, or Fault where the build
\* panics on mask_offset - 1 with mask_offset = 0
Fault == [fault |-> TRUE]
IsFault(r) == "fault" \in DOMAIN r
advance_no_or(p, checks) ==
  IF p.seed = Shr(p.mask, p.mask_offset)
  THEN IF p.mask_offset + Isqrt(1 + Shr(p.mask, p.mask_offset)) + 1 < WordBits
       THEN [p EXCEPT !.seed = 0, !.mask = Shl(p.mask, 1), !.mask_offset = @ + 1]
       ELSE IF p.mask_offset = 0
            THEN IF checks THEN Fault
                 ELSE [p EXCEPT !.seed = 0,
                                !.mask = BitOr(Shr(p.mask, WordBits - 1), 1),
                                !.mask_offset = 0]
            ELSE [p EXCEPT !.seed = 0,
                           !.mask = Shr(p.mask, p.mask_offset - 1),
                           !.mask_offset = 0]
  ELSE [p EXCEPT !.seed = @ + 1]

advance_keep_seed(p, checks) ==
  IF p.seed = Shr(p.mask, p.mask_offset)
  THEN IF p.mask_offset + Isqrt(1 + Shr(p.mask, p.mask_offset)) + 1 < WordBits
       THEN [p EXCEPT !.mask = Shl(p.mask, 1), !.mask_offset = @ + 1]
       ELSE IF p.mask_offset = 0
            THEN IF checks THEN Fault
                 ELSE [p EXCEPT !.seed = 0,
                                !.mask = BitOr(Shr(p.mask, WordBits - 1), 1),
                                !.mask_offset = 0]
            ELSE [p EXCEPT !.seed = 0,
                           !.mask = BitOr(Shr(p.mask, p.mask_offset - 1), 1),
                           !.mask_offset = 0]
  ELSE [p EXCEPT !.seed = @ + 1]

advance(p, checks) ==
  IF p.seed = Shr(p.mask, p.mask_offset)
  THEN IF p.mask_offset + Isqrt(1 + Shr(p.mask, p.mask_offset)) + 1 < WordBits
       THEN [p EXCEPT !.seed = 0, !.mask = Shl(p.mask, 1), !.mask_offset = @ + 1]
       ELSE IF p.mask_offset = 0
            THEN \* mask_offset - 1 overflows: a panic with overflow checks;
                 \* without them it wraps to usize::MAX and the shift amount
                 \* is masked to WordBits - 1
                 IF checks THEN Fault
                 ELSE [p EXCEPT !.seed = 0,
                                !.mask = BitOr(Shr(p.mask, WordBits - 1), 1),
                                !.mask_offset = 0]
            ELSE [p EXCEPT !.seed = 0,
                           !.mask = BitOr(Shr(p.mask, p.mask_offset - 1), 1),
                           !.mask_offset = 0]
  ELSE [p EXCEPT !.seed = @ + 1]

\* the history of the seeds checked under the current (mask, mask_offset)
NoneTried == [seeds |-> << >>, by_search |-> FALSE]
MovedOn == [seeds |-> << >>, by_search |-> TRUE]
Tried(tried, seed) == [tried EXCEPT !.seeds = Append(@, seed)]
SameWindow(p, q) == p.mask = q.mask /\ p.mask_offset = q.mask_offset

\* find_params, line 30: the call
find_params_call_restart(n) ==
  /\ scenario = "builder"
  /\ b_pc \in {"ready", "returned"}
  /\ b_pc' = "running"
  /\ b_max' = n
  /\ b_left' = n
  /\ b_tried' = NoneTried
  /\ b_from' = b_pc
  /\ b_params' = [b_params EXCEPT !.seed = 0, !.mask = 1, !.mask_offset = 0]
  /\ UNCHANGED <<b_keys, b_checks, scenario, m_vars, o_vars>>

find_params_call(n) ==
  /\ scenario = "builder"
  /\ b_pc \in {"ready", "returned"}
  /\ b_pc' = "running"
  /\ b_max' = n
  /\ b_left' = n
  /\ b_tried' = NoneTried
  /\ b_from' = b_pc
  /\ UNCHANGED <<b_keys, b_params, b_checks, scenario, m_vars, o_vars>>

\* find_params, lines 31-66: one iteration of the for loop
find_params_iter_no_count ==
  /\ scenario = "builder"
  /\ b_pc = "running"
  /\ b_left > 0
  /\ IF round_trip(b_keys, b_params)
     THEN /\ b_pc' = "returned"
          /\ b_tried' = Tried(b_tried, b_params.seed)
          /\ UNCHANGED <<b_params, b_left>>
     ELSE LET next == advance(b_params, b_checks)
          IN IF IsFault(next)
             THEN /\ b_pc' = "panicked"
                  /\ b_tried' = Tried(b_tried, b_params.seed)
                  /\ UNCHANGED <<b_params, b_left>>
             ELSE /\ b_params' = next
                  /\ b_pc' = "running"
                  /\ b_tried' = IF SameWindow(next, b_params)
                                THEN Tried(b_tried, b_params.seed)
                                ELSE MovedOn
                  /\ UNCHANGED b_left
  /\ UNCHANGED <<b_keys, b_max, b_checks, b_from, scenario, m_vars, o_vars>>

find_params_iter ==
  /\ scenario = "builder"
  /\ b_pc = "running"
  /\ b_left > 0
  /\ IF round_trip(b_keys, b_params)
     THEN /\ b_pc' = "returned"
          /\ b_tried' = Tried(b_tried, b_params.seed)
          /\ UNCHANGED <<b_params, b_left>>
     ELSE LET next == advance(b_params, b_checks)
          IN IF IsFault(next)
             THEN /\ b_pc' = "panicked"
                  /\ b_tried' = Tried(b_tried, b_params.seed)
                  /\ UNCHANGED <<b_params, b_left>>
             ELSE /\ b_params' = next
                  /\ b_left' = b_left - 1
                  /\ b_pc' = "running"
                  /\ b_tried' = IF SameWindow(next, b_params)
                                THEN Tried(b_tried, b_params.seed)
                                ELSE MovedOn
  /\ UNCHANGED <<b_keys, b_max, b_checks, b_from, scenario, m_vars, o_vars>>

\* find_params, line 68: the loop ran out
find_params_exhausted ==
  /\ scenario = "builder"
  /\ b_pc = "running"
  /\ b_left = 0
  /\ b_pc' = "panicked"
  /\ UNCHANGED <<b_keys, b_params, b_max, b_left, b_checks, b_tried, b_from,
                 scenario, m_vars, o_vars>>

BuilderInit ==
  /\ b_keys = << >>
  /\ b_params = DefaultParams
  /\ b_pc = "ready"
  /\ b_max = 0
  /\ b_left = 0
  /\ b_tried = NoneTried
  /\ b_from = "ready"
  /\ b_checks \in (IF scenario = "builder" THEN BOOLEAN ELSE {FALSE})

BuilderNext ==
  \/ \E keys \in BuilderKeyLists : set_keys(keys)
  \/ \E n \in IterationChoices : find_params_call(n)
  \/ find_params_iter
  \/ find_params_exhausted


(***************************************************************************)
(* The latest map operation.  res is what it returned (an Option), hashed  *)
(* whether it computed the key's hash, fault whether it panicked, pre the  *)
(* history of the key's slot before the operation (g_written's entry).     *)
(***************************************************************************)
Op(op, key, val, res, hashed, fault, pre) ==
  [op |-> op, key |-> key, val |-> val, res |-> res, hashed |-> hashed,
   fault |-> fault, pre |-> pre]

NoOp == Op("none", << >>, 0, None, FALSE, FALSE, None)

\* the slot of a sparse slot array
Slot(inner, index) == IF index \in DOMAIN inner THEN Some(inner[index]) ELSE None

\* the slot array with the slot at index replaced by Some(entry)
Filled(inner, index, entry) ==
  [i \in DOMAIN inner \cup {index} |-> IF i = index THEN entry ELSE inner[i]]

\* lookup in the reference hash map
RefGet(ref, key) == IF key \in DOMAIN ref THEN Some(ref[key]) ELSE None

\* the slot array with the slot at index replaced by None
Cleared(inner, index) == [i \in DOMAIN inner \ {index} |-> inner[i]]

(***************************************************************************)
(* v2 (src/src/v2.rs).                                                     *)
(***************************************************************************)
\* const KEY_MASK: u64 = 0xff0
KEY_MASK == 4080

\* The u64 accumulator of SeedHasher is kept modulo 2^HashBits: key_hash
\* reads it only through & KEY_MASK, whose bits all lie below bit 12, and
\* wrapping_mul modulo 2^64 preserves residues modulo every smaller power
\* of two.
HashBits == 12
HashMod == Pow2(HashBits)

\* find_seed tries the seeds 1..FIND_SEED_END - 1
FIND_SEED_END == 100000

\* SeedHasher::write, lines 132-140
RECURSIVE SeedHasher_write(_, _, _)
SeedHasher_write(hash, seed, bytes) ==
  IF bytes = << >> THEN hash
  ELSE SeedHasher_write((hash * ((Head(bytes) * seed) % HashMod)) % HashMod,
                        seed, Tail(bytes))

\* key_hash, lines 99-106; str's Hash writes the bytes and then the byte 0xff
key_hash(key, seed) ==
  BitAnd(SeedHasher_write(1, seed, key \o <<255>>), KEY_MASK)

\* check_bounds, lines 108-113
check_bounds_lower_only(key, bounds) == bounds[1] <= Len(key)

check_bounds_above_min(key, bounds) ==
  bounds[1] < Len(key) /\ Len(key) <= bounds[2]

check_bounds(key, bounds) ==
  bounds[1] <= Len(key) /\ Len(key) <= bounds[2]

\* Vfhm::get, lines 28-49: the result and whether key_hash was called
v2_get_no_compare(inner, len, seed, key_bounds, key) ==
  IF ~check_bounds(key, key_bounds) THEN [res |-> None, hashed |-> FALSE]
  ELSE LET index == key_hash(key, seed)
           bucket == IF index < len THEN Slot(inner, index) ELSE None
       IN [res |-> IF bucket # None THEN Some(bucket[1][2]) ELSE None,
           hashed |-> TRUE]

v2_get(inner, len, seed, key_bounds, key) ==
  IF ~check_bounds(key, key_bounds) THEN [res |-> None, hashed |-> FALSE]
  ELSE LET index == key_hash(key, seed)
           bucket == IF index < len THEN Slot(inner, index) ELSE None
       IN [res |-> IF bucket # None /\ bucket[1][1] = key
                   THEN Some(bucket[1][2]) ELSE None,
           hashed |-> TRUE]

\* Vfhm::get without lines 39-41: lines 43-48 alone
v2_get_unchecked(inner, len, seed, key) ==
  LET index == key_hash(key, seed)
      bucket == IF index < len THEN Slot(inner, index) ELSE None
  IN IF bucket # None /\ bucket[1][1] = key THEN Some(bucket[1][2]) ELSE None

\* Vfhm::new, lines 20-26
v2_new(seed, key_bounds) ==
  /\ v2_seed' = seed
  /\ v2_bounds' = key_bounds
  /\ v2_len' = KEY_MASK
  /\ v2_inner' = << >>

\* Vfhm::insert, lines 51-69: the slot array after the swap
v2_insert_keep_old(inner, index, key, value) ==
  IF index \in DOMAIN inner THEN inner ELSE Filled(inner, index, <<key, value>>)

v2_insert_inner(inner, index, key, value) == Filled(inner, index, <<key, value>>)

\* the strings the v2 scenario inserts and asks for
V2Strings == {Str_empty, Str_a, Str_ab, Str_ba, Str_ag}

\* the (seed, key_bounds) the v2 scenario constructs its map with
V2Configs ==
  {<<0, <<1, 2>>>>, <<1, <<1, 2>>>>, <<1, <<2, 2>>>>, <<1, <<1, 1>>>>,
   <<16, <<0, 2>>>>}

Values == 1..MaxVal

V2Get(key) ==
  /\ scenario = "v2"
  /\ ~last.fault
  /\ LET r == v2_get(v2_inner, v2_len, v2_seed, v2_bounds, key)
     IN last' = Op("get", key, 0, r.res, r.hashed, FALSE, None)
  /\ UNCHANGED <<scenario, b_vars, o_vars, v2_seed, v2_bounds, v2_len, v2_inner,
                 lut_inner, g_written, g_ref, t_keys, t_pc>>

\* insert with the index out of the slot array panics at inner[index]
V2InsertStep(key, value) ==
  LET index == key_hash(key, v2_seed)
  IN IF index < v2_len
     THEN /\ v2_inner' = v2_insert_inner(v2_inner, index, key, value)
          /\ g_written' = Filled(g_written, index, <<key, value>>)
          /\ last' = Op("insert", key, value, Slot(v2_inner, index), TRUE, FALSE,
                       Slot(g_written, index))
     ELSE /\ last' = Op("insert", key, value, None, TRUE, TRUE, None)
          /\ UNCHANGED <<v2_inner, g_written>>

V2Insert(key, value) ==
  /\ scenario = "v2"
  /\ ~last.fault
  /\ V2InsertStep(key, value)
  /\ UNCHANGED <<scenario, b_vars, o_vars, v2_seed, v2_bounds, v2_len, lut_inner,
                 g_ref, t_keys, t_pc>>

V2Next ==
  \/ \E key \in V2Strings : V2Get(key)
  \/ \E key \in V2Strings, value \in Values : V2Insert(key, value)

\* find_seed, lines 71-84: Some(seed), or None where it panics
find_seed_distinct(keys, seed) ==
  Cardinality({key_hash(keys[i], seed) : i \in 1..Len(keys)}) = Len(keys)

find_seed_from_zero(keys) ==
  IF \E seed \in 0..(FIND_SEED_END - 1) : find_seed_distinct(keys, seed)
  THEN Some(CHOOSE seed \in 0..(FIND_SEED_END - 1) :
              /\ find_seed_distinct(keys, seed)
              /\ \A t \in 0..(seed - 1) : ~find_seed_distinct(keys, t))
  ELSE None

find_seed(keys) ==
  IF \E seed \in 1..(FIND_SEED_END - 1) : find_seed_distinct(keys, seed)
  THEN Some(CHOOSE seed \in 1..(FIND_SEED_END - 1) :
              /\ find_seed_distinct(keys, seed)
              /\ \A t \in 1..(seed - 1) : ~find_seed_distinct(keys, t))
  ELSE None

(***************************************************************************)
(* tests::seed_hash (v2.rs, lines 158-177) and bench_vfhd2 (days.rs, lines *)
(* 244-274): a map on find_seed's seed, every key inserted with its        *)
(* position (from 1) as value, then read back.                             *)
(***************************************************************************)
DAY_NAMES ==
  <<Str_sunday, Str_monday, Str_tuesday, Str_wednesday, Str_thursday,
    Str_firday, Str_saturday>>

SeedHashKeyLists ==
  { DAY_NAMES,
    <<Str_a>>,
    <<Str_ag>>,
    <<Str_a, Str_ab>>,
    <<Str_monday, Str_mon, Str_on>>,
    <<Str_ab, Str_ba>>,
    <<Str_a, Str_a>>,
    <<Str_mon, Str_day>> }

\* the keys of the lists and words of the benches' text
SeedHashQueries ==
  UNION {{keys[i] : i \in 1..Len(keys)} : keys \in SeedHashKeyLists} \cup
  {Str_day, Str_the, Str_many, Str_friday}

\* the (min, max) byte length of a non-empty key list
KeyLengthBounds(keys) == set_keys_bounds(keys, <<Len(keys[1]), Len(keys[1])>>)

seed_hash_new(keys) ==
  /\ scenario = "seed_hash"
  /\ t_keys = << >>
  /\ ~last.fault
  /\ LET found == find_seed(keys)
     IN IF found = None
        THEN /\ last' = Op("find_seed", keys, 0, None, TRUE, TRUE, None)
             /\ UNCHANGED <<v2_seed, v2_bounds, v2_len, v2_inner, t_keys>>
        ELSE /\ v2_new(found[1], KeyLengthBounds(keys))
             /\ t_keys' = keys
             /\ last' = Op("find_seed", keys, 0, found, TRUE, FALSE, None)
  /\ UNCHANGED <<scenario, b_vars, o_vars, lut_inner, g_written, g_ref, t_pc>>

seed_hash_insert ==
  /\ scenario = "seed_hash"
  /\ t_keys # << >>
  /\ t_pc < Len(t_keys)
  /\ ~last.fault
  /\ V2InsertStep(t_keys[t_pc + 1], t_pc + 1)
  /\ t_pc' = IF last'.fault THEN t_pc ELSE t_pc + 1
  /\ UNCHANGED <<scenario, b_vars, o_vars, v2_seed, v2_bounds, v2_len, lut_inner,
                 g_ref, t_keys>>

seed_hash_get(key) ==
  /\ scenario = "seed_hash"
  /\ t_keys # << >>
  /\ t_pc = Len(t_keys)
  /\ ~last.fault
  /\ LET r == v2_get(v2_inner, v2_len, v2_seed, v2_bounds, key)
     IN last' = Op("get", key, 0, r.res, r.hashed, FALSE, None)
  /\ UNCHANGED <<scenario, b_vars, o_vars, v2_seed, v2_bounds, v2_len, v2_inner,
                 lut_inner, g_written, g_ref, t_keys, t_pc>>

SeedHashNext ==
  \/ \E keys \in SeedHashKeyLists : seed_hash_new(keys)
  \/ seed_hash_insert
  \/ \E key \in SeedHashQueries : seed_hash_get(key)

(***************************************************************************)
(* The weight-table map (src/src/lib.rs).                                  *)
(***************************************************************************)
\* LutBuilder::LUT_SIZE
LUT_SIZE == 96
\* the SIZE of Vfhm<_, 7> on the DAYS Lut
SIZE == 7

\* 'x' as usize - 32 for the letter x
Letter_s == 115 - 32
Letter_t == 116 - 32
Letter_r == 114 - 32
Letter_h == 104 - 32
Letter_f == 102 - 32
Letter_w == 119 - 32

\* tests::DAYS, lines 220-240 (and benches/days.rs, lines 28-48)
DAYS_unweighted ==
  [keys |-> <<Str_monday, Str_sunday, Str_tuesday, Str_saturday, Str_thursday,
              Str_firday, Str_wednesday>>,
   inner |-> [i \in 0..(LUT_SIZE - 1) |-> 0]]

DAYS ==
  [keys |-> <<Str_monday, Str_sunday, Str_tuesday, Str_saturday, Str_thursday,
              Str_firday, Str_wednesday>>,
   inner |-> [i \in 0..(LUT_SIZE - 1) |->
                IF i \in {Letter_s, Letter_t, Letter_r, Letter_h} THEN 1
                ELSE IF i = Letter_f THEN 4
                ELSE IF i = Letter_w THEN 5
                ELSE 0]]

\* char_index, lines 52-54, and the lookup lut[index] of key_index: a
\* character below 32 overflows the subtraction (a panic with overflow
\* checks, a wrap to an index far beyond the table without), one of 128 or
\* more indexes beyond the table; both panic
key_index_panics(key) ==
  \E i \in 1..Len(key) : key[i] < 32 \/ key[i] - 32 >= LUT_SIZE

\* key_index, lines 65-71
RECURSIVE key_index(_, _)
key_index(key, lut) ==
  IF key = << >> THEN 0
  ELSE lut.inner[Head(key) - 32] + key_index(Tail(key), lut)

\* is_same_key, lines 74-81: zip stops at the shorter of the two
is_same_key(a, b) ==
  \A i \in 1..Min(Len(a), Len(b)) : a[i] = b[i]

\* Lut::key, lines 114-118, panics for an index that is no position of keys
Lut_key_panics(lut, index) == index >= Len(lut.keys)
Lut_key(lut, index) == lut.keys[index + 1]

\* Vfhm::new, lines 16-21
Vfhm_new_occupied == [i \in 0..(SIZE - 1) |-> Some(MaxVal)]

Vfhm_new == [i \in 0..(SIZE - 1) |-> None]

\* Vfhm::get, lines 23-31
Vfhm_get_panics(lut, key) ==
  \/ key_index_panics(key)
  \/ /\ key_index(key, lut) < SIZE
     /\ Lut_key_panics(lut, key_index(key, lut))

Vfhm_get(inner, lut, key) ==
  LET index == key_index(key, lut)
  IN IF index < SIZE /\ is_same_key(key, Lut_key(lut, index))
     THEN inner[index] ELSE None

\* Vfhm::insert, lines 33-39, and Vfhm::remove, lines 41-47, panic at
\* inner[index] for an index of SIZE or more
Vfhm_index_panics(lut, key) ==
  key_index_panics(key) \/ key_index(key, lut) >= SIZE

\* Vfhm::insert: the slot array after the swap
Vfhm_insert_keep_old(inner, index, value) ==
  IF inner[index] = None THEN [inner EXCEPT ![index] = Some(value)] ELSE inner

Vfhm_insert_inner(inner, index, value) == [inner EXCEPT ![index] = Some(value)]

\* Vfhm::remove: the slot array after the swap
Vfhm_remove_other_slot(inner, index) ==
  [inner EXCEPT ![(index + 1) % SIZE] = None]

Vfhm_remove_every_slot(inner, index) == [i \in DOMAIN inner |-> None]

Vfhm_remove_inner(inner, index) == [inner EXCEPT ![index] = None]

\* the strings the lut scenario inserts, removes and asks for
LutStrings ==
  {Str_empty, Str_mon, Str_monday, Str_mondayx, Str_funday, Str_thursday,
   Str_ww, Str_newline}

LutGet(key) ==
  /\ scenario \in {"lut", "bench_vfhm"}
  /\ scenario = "bench_vfhm" => t_pc = Len(DAY_NAMES)
  /\ ~last.fault
  /\ IF Vfhm_get_panics(DAYS, key)
     THEN last' = Op("get", key, 0, None, TRUE, TRUE, None)
     ELSE last' = Op("get", key, 0, Vfhm_get(lut_inner, DAYS, key), TRUE, FALSE, None)
  /\ UNCHANGED <<scenario, b_vars, o_vars, v2_seed, v2_bounds, v2_len, v2_inner,
                 lut_inner, g_written, g_ref, t_keys, t_pc>>

LutInsertStep(key, value) ==
  IF Vfhm_index_panics(DAYS, key)
  THEN /\ last' = Op("insert", key, value, None, TRUE, TRUE, None)
       /\ UNCHANGED <<lut_inner, g_written>>
  ELSE LET index == key_index(key, DAYS)
       IN /\ lut_inner' = Vfhm_insert_inner(lut_inner, index, value)
          /\ g_written' = Filled(g_written, index, <<key, value>>)
          /\ last' = Op("insert", key, value, lut_inner[index], TRUE, FALSE,
                       Slot(g_written, index))

LutInsert(key, value) ==
  /\ scenario = "lut"
  /\ ~last.fault
  /\ LutInsertStep(key, value)
  /\ UNCHANGED <<scenario, b_vars, o_vars, v2_seed, v2_bounds, v2_len, v2_inner,
                 g_ref, t_keys, t_pc>>

LutRemove(key) ==
  /\ scenario = "lut"
  /\ ~last.fault
  /\ IF Vfhm_index_panics(DAYS, key)
     THEN /\ last' = Op("remove", key, 0, None, TRUE, TRUE, None)
          /\ UNCHANGED <<lut_inner, g_written>>
     ELSE LET index == key_index(key, DAYS)
          IN /\ lut_inner' = Vfhm_remove_inner(lut_inner, index)
             /\ g_written' = Cleared(g_written, index)
             /\ last' = Op("remove", key, 0, lut_inner[index], TRUE, FALSE,
                          Slot(g_written, index))
  /\ UNCHANGED <<scenario, b_vars, o_vars, v2_seed, v2_bounds, v2_len, v2_inner,
                 g_ref, t_keys, t_pc>>

(***************************************************************************)
(* bench_vfhm (lib.rs, lines 341-367; bench_vfhd in benches/days.rs): the  *)
(* seven day names inserted with the values 1..7, then looked up.          *)
(***************************************************************************)
\* printable ASCII query strings
DaysQueries ==
  {DAY_NAMES[i] : i \in 1..Len(DAY_NAMES)} \cup
  {Str_empty, Str_mon, Str_mondayx, Str_funday, Str_friday, Str_day, Str_on,
   Str_the, Str_many, Str_a}

bench_vfhm_insert ==
  /\ scenario = "bench_vfhm"
  /\ t_pc < Len(DAY_NAMES)
  /\ ~last.fault
  /\ LutInsertStep(DAY_NAMES[t_pc + 1], t_pc + 1)
  /\ g_ref' = Filled(g_ref, DAY_NAMES[t_pc + 1], t_pc + 1)
  /\ t_pc' = IF last'.fault THEN t_pc ELSE t_pc + 1
  /\ UNCHANGED <<scenario, b_vars, o_vars, v2_seed, v2_bounds, v2_len, v2_inner, t_keys>>

LutNext ==
  \/ \E key \in LutStrings \cup DaysQueries : LutGet(key)
  \/ \E key \in LutStrings, value \in Values : LutInsert(key, value)
  \/ \E key \in LutStrings : LutRemove(key)
  \/ bench_vfhm_insert

(***************************************************************************)
(* MatchMap (src/src/match.rs) over the matcher DaysMatcher of             *)
(* benches/days.rs, whose literal list is the seven day names.             *)
(***************************************************************************)
\* the most entries the model lets the linear fallback list grow to
MaxLiner == 3

\* DaysMatcher::keys
DaysMatcher_keys == DAY_NAMES

\* match_key, lines 32-50: the position of the first literal equal to key
match_key(key) ==
  IF \E i \in 1..Len(DaysMatcher_keys) : DaysMatcher_keys[i] = key
  THEN Some((CHOOSE i \in 1..Len(DaysMatcher_keys) :
               /\ DaysMatcher_keys[i] = key
               /\ \A j \in 1..(i - 1) : DaysMatcher_keys[j] # key) - 1)
  ELSE None

\* MatchMap::new, lines 62-71
MatchMap_new == [i \in 0..(Len(DaysMatcher_keys) - 1) |-> None]

\* liner.iter().find(|(k, _)| k == key): the first entry of the key
RECURSIVE liner_find(_, _)
liner_find(liner, key) ==
  IF liner = << >> THEN None
  ELSE IF Head(liner)[1] = key THEN Some(Head(liner)[2])
  ELSE liner_find(Tail(liner), key)

\* MatchMap::get, lines 73-82
MatchMap_get(values, liner, key) ==
  LET m == match_key(key)
  IN IF m # None THEN values[m[1]] ELSE liner_find(liner, key)

\* MatchMap::insert, lines 84-99: the fallback list after the push
MatchMap_insert_liner(liner, key, value) == Append(liner, <<key, value>>)

\* the strings the match scenario inserts and asks for
MatchStrings == {Str_monday, Str_sunday, Str_funday, Str_mon}

MatchGet(key) ==
  /\ scenario = "match"
  /\ last' = Op("get", key, 0, MatchMap_get(mm_values, mm_liner, key), FALSE,
               FALSE, None)
  /\ UNCHANGED <<scenario, b_vars, v2_seed, v2_bounds, v2_len, v2_inner,
                 lut_inner, g_written, g_ref, t_keys, t_pc, o_vars>>

\* pre is what the reference hash map holds for the key before the insert
MatchInsert(key, value) ==
  /\ scenario = "match"
  /\ LET m == match_key(key)
     IN IF m # None
        THEN /\ mm_values' = [mm_values EXCEPT ![m[1]] = Some(value)]
             /\ last' = Op("insert", key, value, mm_values[m[1]], FALSE, FALSE,
                          RefGet(g_ref, key))
             /\ UNCHANGED mm_liner
        ELSE /\ Len(mm_liner) < MaxLiner
             /\ mm_liner' = MatchMap_insert_liner(mm_liner, key, value)
             /\ last' = Op("insert", key, value, None, FALSE, FALSE,
                          RefGet(g_ref, key))
             /\ UNCHANGED mm_values
  /\ g_ref' = Filled(g_ref, key, value)
  /\ UNCHANGED <<scenario, b_vars, v2_seed, v2_bounds, v2_len, v2_inner,
                 lut_inner, g_written, t_keys, t_pc, th>>

MatchNext ==
  \/ \E key \in MatchStrings : MatchGet(key)
  \/ \E key \in MatchStrings, value \in Values : MatchInsert(key, value)

(***************************************************************************)
(* tests::basic (lib.rs, lines 267-276): a Lut from LutBuilder::build, a   *)
(* fresh Vfhm over it, and gets.                                           *)
(***************************************************************************)
\* the printable characters 32..126 in one string
Str_printable == [i \in 1..95 |-> 31 + i]

\* LutBuilder::build, lines 89-105: the counting loop indexes
\* letter_reuse[c as usize - 32] and panics as char_index does; the weights
\* of the Lut it returns are all 0
LutBuilder_build_panics(keys) ==
  \E i \in 1..Len(keys) : key_index_panics(keys[i])

LutBuilder_build(keys) ==
  [keys |-> keys, inner |-> [i \in 0..(LUT_SIZE - 1) |-> 0]]

\* the key sets given to LutBuilder
BasicKeyLists ==
  { <<Str_printable>>,
    <<Str_a>>,
    <<Str_monday, Str_sunday>>,
    <<Str_sunday, Str_mon, Str_monday>>,
    <<Str_newline>> }

BasicQueries == LutStrings \cup DaysQueries \cup {Str_printable}

basic_build(keys) ==
  /\ scenario = "basic"
  /\ t_keys = << >>
  /\ ~last.fault
  /\ IF LutBuilder_build_panics(keys)
     THEN /\ last' = Op("build", << >>, 0, None, FALSE, TRUE, None)
          /\ UNCHANGED t_keys
     ELSE /\ last' = Op("build", << >>, 0, None, FALSE, FALSE, None)
          /\ t_keys' = keys
  /\ UNCHANGED <<scenario, b_vars, o_vars, v2_seed, v2_bounds, v2_len, v2_inner,
                 lut_inner, g_written, g_ref, t_pc>>

basic_get(key) ==
  /\ scenario = "basic"
  /\ t_keys # << >>
  /\ ~last.fault
  /\ LET lut == LutBuilder_build(t_keys)
     IN IF Vfhm_get_panics(lut, key)
        THEN last' = Op("get", key, 0, None, TRUE, TRUE, None)
        ELSE last' = Op("get", key, 0, Vfhm_get(lut_inner, lut, key), TRUE,
                        FALSE, None)
  /\ UNCHANGED <<scenario, b_vars, o_vars, v2_seed, v2_bounds, v2_len, v2_inner,
                 lut_inner, g_written, g_ref, t_keys, t_pc>>

BasicNext ==
  \/ \E keys \in BasicKeyLists : basic_build(keys)
  \/ \E key \in BasicQueries : basic_get(key)

(***************************************************************************)
(* Reader threads on a v2::Vfhm.  A single writer inserts while no reader  *)
(* has started; from then on the threads run Vfhm::get (v2.rs, lines       *)
(* 28-49) concurrently, one read of the shared map per step.               *)
(***************************************************************************)
Threads == {1, 2}

Idle == [pc |-> "idle", key |-> << >>, index |-> 0, res |-> None]

ReaderStrings == {Str_a, Str_ab, Str_ba}

\* the map is handed to the readers once one of them has started
NoReaderYet == \A t \in Threads : th[t].pc = "idle"

readers_insert(key, value) ==
  /\ scenario = "readers"
  /\ NoReaderYet
  /\ ~last.fault
  /\ V2InsertStep(key, value)
  /\ UNCHANGED <<scenario, b_vars, o_vars, v2_seed, v2_bounds, v2_len, lut_inner,
                 g_ref, t_keys, t_pc>>

ReaderFrame ==
  UNCHANGED <<scenario, b_vars, m_vars, mm_values, mm_liner>>

\* line 28: a thread calls get(key)
get_call(t, key) ==
  /\ scenario = "readers"
  /\ ~last.fault
  /\ th[t].pc \in {"idle", "done"}
  /\ th' = [th EXCEPT ![t] = [pc |-> "bounds", key |-> key, index |-> 0,
                              res |-> None]]
  /\ ReaderFrame

\* lines 39-41: the read of key_bounds
get_check_bounds(t) ==
  /\ scenario = "readers"
  /\ th[t].pc = "bounds"
  /\ th' = [th EXCEPT ![t].pc =
              IF check_bounds(th[t].key, v2_bounds) THEN "hash" ELSE "done"]
  /\ ReaderFrame

\* line 43: the read of seed
get_key_hash(t) ==
  /\ scenario = "readers"
  /\ th[t].pc = "hash"
  /\ th' = [th EXCEPT ![t].pc = "bucket",
                      ![t].index = key_hash(th[t].key, v2_seed)]
  /\ ReaderFrame

\* lines 45-48: the read of the slot and the comparison with its key
get_bucket_no_compare(t) ==
  /\ scenario = "readers"
  /\ th[t].pc = "bucket"
  /\ LET bucket == IF th[t].index < v2_len THEN Slot(v2_inner, th[t].index)
                   ELSE None
     IN th' = [th EXCEPT ![t].pc = "done",
                         ![t].res = IF bucket # None
                                    THEN Some(bucket[1][2]) ELSE None]
  /\ ReaderFrame

get_bucket(t) ==
  /\ scenario = "readers"
  /\ th[t].pc = "bucket"
  /\ LET bucket == IF th[t].index < v2_len THEN Slot(v2_inner, th[t].index)
                   ELSE None
     IN th' = [th EXCEPT ![t].pc = "done",
                         ![t].res = IF bucket # None /\ bucket[1][1] = th[t].key
                                    THEN Some(bucket[1][2]) ELSE None]
  /\ ReaderFrame

ReadersNext ==
  \/ \E key \in ReaderStrings : readers_insert(key, 1)
  \/ \E t \in Threads, key \in ReaderStrings : get_call(t, key)
  \/ \E t \in Threads : get_check_bounds(t)
  \/ \E t \in Threads : get_key_hash(t)
  \/ \E t \in Threads : get_bucket(t)

(***************************************************************************)
(* The specification.                                                      *)
(***************************************************************************)
Scenarios ==
  {"builder", "v2", "lut", "seed_hash", "bench_vfhm", "match", "basic", "readers"}

MapsInit ==
  /\ \E cfg \in (IF scenario = "v2" THEN V2Configs
                 ELSE IF scenario = "readers" THEN {<<1, <<2, 2>>>>}
                 ELSE {<<0, <<0, 0>>>>}) :
       /\ v2_seed = cfg[1]
       /\ v2_bounds = cfg[2]
  /\ v2_len = KEY_MASK
  /\ v2_inner = << >>
  /\ lut_inner = Vfhm_new
  /\ g_written = << >>
  /\ g_ref = << >>
  /\ last = NoOp
  /\ t_keys = << >>
  /\ t_pc = 0

OthersInit ==
  /\ mm_values = MatchMap_new
  /\ mm_liner = << >>
  /\ th = [t \in Threads |-> Idle]

vars == <<scenario, b_vars, m_vars, o_vars>>

Init ==
  /\ scenario \in Scenarios
  /\ BuilderInit
  /\ MapsInit
  /\ OthersInit

Next ==
  \/ BuilderNext
  \/ V2Next
  \/ SeedHashNext
  \/ LutNext
  \/ MatchNext
  \/ BasicNext
  \/ ReadersNext

Spec == Init /\ [][Next]_vars

\* find_params is a sequential loop on the calling thread: once called, its
\* next iteration, or the panic after the last one, is eventually run
LiveSpec ==
  /\ Init
  /\ [][Next]_vars
  /\ WF_vars(find_params_iter)
  /\ WF_vars(find_params_exhausted)

(***************************************************************************)
(* Properties.                                                             *)
(***************************************************************************)
InV2 == scenario \in {"v2", "seed_hash", "readers"}
InLut == scenario \in {"lut", "bench_vfhm"}

\* the strings asked of a v2 map
V2Queries == V2Strings \cup SeedHashQueries

\* get(key) on the current map of the running scenario
CurrentGet(key) ==
  IF InV2 THEN v2_get(v2_inner, v2_len, v2_seed, v2_bounds, key).res
  ELSE Vfhm_get(lut_inner, DAYS, key)

\* C1: find_params returns normally only within its iteration budget and
\* only with parameters under which a table given every key (with its
\* position as value) returns, for each key, that key's own value.
C1_ReturnsOnlyVerified ==
  (scenario = "builder" /\ b_pc = "returned") =>
    /\ 1 <= b_left
    /\ b_left <= b_max
    /\ LET map == InsertAll(PVfhm_with_params(b_params), b_params, b_keys, 1)
       IN \A i \in 1..Len(b_keys) :
            PVfhm_get(map, b_params, b_keys[i]) = Some(i - 1)

\* find_params has returned for three keys after moving on from the first
\* candidates
C1_Witness ==
  /\ scenario = "builder"
  /\ b_pc = "returned"
  /\ Len(b_keys) = 3
  /\ mask_size(b_params) >= 4

\* C2 (as claimed): find_params(0) on the initial parameters and a non-empty
\* key set returns exactly when the key set has no collision under them, and
\* signals failure otherwise.
C2_ZeroIterationsClaim ==
  ( /\ scenario = "builder"
    /\ Len(b_keys) >= 1
    /\ b_max = 0
    /\ b_pc \in {"returned", "panicked"}
    /\ b_params.seed = 0 /\ b_params.mask = 1 /\ b_params.mask_offset = 0 )
  => (b_pc = "returned" <=> round_trip(b_keys, b_params))

\* C3: a v2 get returns a value only when the occupant of the key's slot
\* stores that very key; after insert(a, _) no other in-bounds string b
\* with a's hash is found.
C3_GetComparesKey ==
  InV2 =>
    /\ \A q \in V2Queries :
         LET r == v2_get(v2_inner, v2_len, v2_seed, v2_bounds, q).res
             index == key_hash(q, v2_seed)
         IN r # None =>
              /\ index \in DOMAIN v2_inner
              /\ v2_inner[index][1] = q
              /\ r = Some(v2_inner[index][2])
    /\ (last.op = "insert" /\ ~last.fault) =>
         \A b \in V2Queries :
           ( /\ b # last.key
             /\ key_hash(b, v2_seed) = key_hash(last.key, v2_seed)
             /\ v2_bounds[1] <= Len(b) /\ Len(b) <= v2_bounds[2]
             /\ v2_bounds[1] <= Len(last.key) /\ Len(last.key) <= v2_bounds[2] )
           => v2_get(v2_inner, v2_len, v2_seed, v2_bounds, b).res = None

\* "ab" has just been inserted, and "ba", in bounds, has the same hash
C3_Witness ==
  /\ scenario = "v2"
  /\ last.op = "insert" /\ ~last.fault
  /\ last.key = Str_ab
  /\ key_hash(Str_ba, v2_seed) = key_hash(Str_ab, v2_seed)
  /\ v2_bounds[1] <= 2 /\ 2 <= v2_bounds[2]
  /\ v2_seed = 1

\* C4 (as claimed): on the DAYS Lut with the seven names inserted with 1..7,
\* get agrees with the reference hash map on every printable query.
C4_DaysMatchReference ==
  (scenario = "bench_vfhm" /\ t_pc = Len(DAY_NAMES)) =>
    \A q \in DaysQueries :
      /\ ~Vfhm_get_panics(DAYS, q)
      /\ Vfhm_get(lut_inner, DAYS, q) = RefGet(g_ref, q)

\* the latest operation re-inserted a key into the slot that key wrote last
ReinsertCase ==
  /\ InV2 \/ InLut
  /\ last.op = "insert"
  /\ ~last.fault
  /\ last.pre # None
  /\ last.pre[1][1] = last.key

\* what insert returns when the slot holds the entry <<key, value>>
PreviousOf(entry) == IF InV2 THEN Some(entry) ELSE Some(entry[2])

\* C5 (as claimed): re-inserting a key returns the entry its earlier insert
\* wrote, and get of the key then returns the new value.
C5_ReinsertClaim ==
  ReinsertCase =>
    /\ last.res = PreviousOf(last.pre[1])
    /\ CurrentGet(last.key) = Some(last.val)

\* C5 (amended): re-inserting a key returns the entry its earlier insert
\* wrote; get of the key then returns the new value when, in v2, the key's
\* length is inside key_bounds and, in the weight-table map, the key is the
\* one the Lut registers at the key's index.
C5_Reinsert ==
  ReinsertCase =>
    /\ last.res = PreviousOf(last.pre[1])
    /\ ( IF InV2
         THEN v2_bounds[1] <= Len(last.key) /\ Len(last.key) <= v2_bounds[2]
         ELSE DAYS.keys[key_index(last.key, DAYS) + 1] = last.key )
       => CurrentGet(last.key) = Some(last.val)

\* "monday" re-inserted with another value than it had
C5_Witness ==
  /\ scenario = "lut"
  /\ ReinsertCase
  /\ last.key = Str_monday
  /\ last.pre[1][2] # last.val

\* C6: a v2 get of a key shorter than min_len or longer than max_len is not
\* found and does not compute key_hash.
C6_BoundsRejectBeforeHash ==
  InV2 =>
    /\ \A q \in V2Queries :
         (Len(q) < v2_bounds[1] \/ Len(q) > v2_bounds[2]) =>
           LET r == v2_get(v2_inner, v2_len, v2_seed, v2_bounds, q)
           IN r.res = None /\ ~r.hashed
    /\ (last.op = "get" /\ (Len(last.key) < v2_bounds[1] \/ Len(last.key) > v2_bounds[2]))
         => (last.res = None /\ ~last.hashed)

\* get("mon") on the map of the seven day names, bounds (6, 9)
C6_Witness ==
  /\ scenario = "seed_hash"
  /\ t_keys = DAY_NAMES
  /\ v2_bounds = <<6, 9>>
  /\ t_pc = Len(DAY_NAMES)
  /\ last.op = "get"
  /\ last.key = Str_mon

\* C7 (as claimed): no get panics.
C7_GetNeverFaults == last.op = "get" => ~last.fault

\* C8: the table size of every candidate of the search is a power of two,
\* at least 2.
C8_TableSizePowerOfTwo ==
  scenario = "builder" =>
    /\ mask_size(b_params) >= 2
    /\ IsPow2(mask_size(b_params))

\* the search has reached a table of 8 slots read at a shifted window
C8_Witness ==
  /\ scenario = "builder"
  /\ b_pc = "running"
  /\ mask_size(b_params) = 8
  /\ b_params.mask_offset > 0
  /\ b_params.seed > 0

\* C9 (as claimed): on the seed find_seed returns, every key can be inserted
\* with its own value and is then found with it.
C9_SeedHashRoundTrip ==
  (scenario = "seed_hash" /\ t_keys # << >>) =>
    /\ ~last.fault
    /\ t_pc = Len(t_keys) =>
         \A i \in 1..Len(t_keys) :
           v2_get(v2_inner, v2_len, v2_seed, v2_bounds, t_keys[i]).res = Some(i)

\* C10: a remove that returns gives back what the slot held and leaves the
\* slot empty, so that get of the key is not found and another remove of it
\* returns none.
C10_Remove ==
  (scenario = "lut" /\ last.op = "remove" /\ ~last.fault) =>
    LET index == key_index(last.key, DAYS)
    IN /\ last.res = (IF last.pre = None THEN None ELSE Some(last.pre[1][2]))
       /\ lut_inner[index] = None
       /\ Vfhm_get(lut_inner, DAYS, last.key) = None

\* remove("monday") took a value out
C10_Witness ==
  /\ scenario = "lut"
  /\ last.op = "remove" /\ ~last.fault
  /\ last.key = Str_monday
  /\ last.res # None

\* C11: a find_params call makes at most max_iterations checks (the loop
\* counter stays within 0..max_iterations, and a call that returned did so
\* inside the loop) and always ends: it returns or it panics.
C11_Terminates ==
  /\ [](scenario = "builder" =>
          /\ 0 <= b_left /\ b_left <= b_max
          /\ b_pc = "returned" => b_left >= 1
          /\ Len(b_tried.seeds) <= b_max - b_left + 1)
  /\ (b_pc = "running") ~> (b_pc \in {"returned", "panicked"})

\* the largest budget was used up: find_params(MaxIterations) panicked after
\* its last iteration
C11_Witness ==
  /\ scenario = "builder"
  /\ b_pc = "panicked"
  /\ b_max = MaxIterations
  /\ b_left = 0

\* C12: under the DAYS weights the key_index of every day name is its
\* position in the Lut's key list, so the seven names, inserted, occupy the
\* seven distinct slots 0..6, each one the slot of its position.
C12_DaysWeightsIndex ==
  scenario = "bench_vfhm" =>
    /\ \A i \in 1..Len(DAYS.keys) :
         /\ ~key_index_panics(DAYS.keys[i])
         /\ key_index(DAYS.keys[i], DAYS) = i - 1
         /\ key_index(DAYS.keys[i], DAYS) < SIZE
    /\ \A i, j \in 1..Len(DAYS.keys) :
         i # j => key_index(DAYS.keys[i], DAYS) # key_index(DAYS.keys[j], DAYS)
    /\ last.op = "insert" => ~last.fault
    /\ \A index \in DOMAIN g_written :
         index < SIZE /\ g_written[index][1] = DAYS.keys[index + 1]
    /\ Cardinality(DOMAIN g_written) = t_pc

\* the seven names are inserted, the last one, "saturday", into slot 3
C12_Witness ==
  /\ scenario = "bench_vfhm"
  /\ t_pc = Len(DAY_NAMES)
  /\ last.op = "insert"
  /\ last.key = Str_saturday
  /\ 3 \in DOMAIN g_written /\ g_written[3][1] = Str_saturday

\* C13 (as claimed): after any sequence of inserts, literal and fallback
\* keys alike, MatchMap's get agrees with the reference hash map given the
\* same inserts, and insert returned the value the key had before.
C13_MatchMapIsMap ==
  scenario = "match" =>
    /\ \A q \in MatchStrings :
         MatchMap_get(mm_values, mm_liner, q) = RefGet(g_ref, q)
    /\ last.op = "insert" => last.res = last.pre
    /\ last.op = "get" => last.res = RefGet(g_ref, last.key)

\* C14 (as claimed): in every v2 map reachable by inserts, get returns for
\* every query what get without the bounds check returns.
C14_BoundsCheckRedundantClaim ==
  InV2 =>
    \A q \in V2Queries :
      v2_get(v2_inner, v2_len, v2_seed, v2_bounds, q).res =
        v2_get_unchecked(v2_inner, v2_len, v2_seed, q)

\* the byte length of every key the map stores lies within key_bounds
StoredKeysInBounds ==
  \A index \in DOMAIN v2_inner :
    /\ v2_bounds[1] <= Len(v2_inner[index][1])
    /\ Len(v2_inner[index][1]) <= v2_bounds[2]

\* C14 (amended): in every v2 map whose stored keys all have a byte length
\* within key_bounds, get returns for every query what get without the
\* bounds check returns.
C14_BoundsCheckRedundant ==
  (InV2 /\ StoredKeysInBounds) =>
    \A q \in V2Queries :
      v2_get(v2_inner, v2_len, v2_seed, v2_bounds, q).res =
        v2_get_unchecked(v2_inner, v2_len, v2_seed, q)

\* get("") under bounds (1, 2) on seed 0, where "" hashes into the occupied
\* slot of an in-bounds key
C14_Witness ==
  /\ scenario = "v2"
  /\ StoredKeysInBounds
  /\ v2_seed = 0 /\ v2_bounds = <<1, 2>>
  /\ last.op = "get" /\ last.key = Str_empty
  /\ key_hash(Str_empty, v2_seed) \in DOMAIN v2_inner
  /\ Len(v2_inner[key_hash(Str_empty, v2_seed)][1]) = 1

\* printable ASCII: every character in 32..126
IsPrintable(key) == \A i \in 1..Len(key) : 32 <= key[i] /\ key[i] <= 126

\* C15: on a fresh Vfhm over a Lut built by LutBuilder::build from a
\* non-empty key set, get of every printable key, the registered keys
\* included, returns none and does not panic.
C15_FreshMapEmpty ==
  (scenario = "basic" /\ t_keys # << >>) =>
    /\ \A q \in BasicQueries \cup {t_keys[i] : i \in 1..Len(t_keys)} :
         IsPrintable(q) =>
           /\ ~Vfhm_get_panics(LutBuilder_build(t_keys), q)
           /\ Vfhm_get(lut_inner, LutBuilder_build(t_keys), q) = None
    /\ (last.op = "get" /\ IsPrintable(last.key)) =>
         (~last.fault /\ last.res = None)

\* get of the registered key made of all 95 printable characters
C15_Witness ==
  /\ scenario = "basic"
  /\ t_keys = <<Str_printable>>
  /\ last.op = "get"
  /\ last.key = Str_printable

\* the state a get reads: the slot arrays, the seed and the bounds
MapState == <<v2_inner, v2_len, v2_seed, v2_bounds, lut_inner>>

\* C16: no step of a get changes the slot array, the seed or the bounds, and
\* on a built map with several threads inside get at once every get that
\* has returned holds the result of that get run alone on the map.
C16_GetReadOnly ==
  /\ [][ ( \/ \E t \in Threads : th'[t] # th[t]
           \/ (last'.op = "get" /\ last' # last) )
         => UNCHANGED MapState ]_vars
  /\ [](scenario = "readers" =>
          \A t \in Threads :
            th[t].pc = "done" =>
              th[t].res =
                v2_get(v2_inner, v2_len, v2_seed, v2_bounds, th[t].key).res)

\* one thread has found "ab" while the other is between its read of the
\* seed and its read of the slot
C16_Witness ==
  /\ scenario = "readers"
  /\ th[1].pc = "done" /\ th[1].key = Str_ab /\ th[1].res # None
  /\ th[2].pc = "bucket" /\ th[2].key = Str_ba

\* find_params, lines 52-53: the condition of the advance step
WidthPermits(p) ==
  p.mask_offset + Isqrt(1 + Shr(p.mask, p.mask_offset)) + 1 < WordBits

\* a step of the search whose check failed with the last seed of the current
\* (mask, mask_offset)
SeedRangeExhaustedStep ==
  /\ scenario = "builder"
  /\ b_pc = "running"
  /\ b_left > 0
  /\ b_pc' # "returned"
  /\ b_params.seed = Shr(b_params.mask, b_params.mask_offset)

\* C17 (as claimed): when the seed range is exhausted, seed becomes 0 and,
\* while the word width permits, the table size doubles with mask_offset
\* kept; mask_offset moves (up by one, or back to 0) only when it does not.
C17_WidenFirstClaim ==
  [][ (SeedRangeExhaustedStep /\ b_pc' = "running") =>
        /\ b_params'.seed = 0
        /\ IF WidthPermits(b_params)
           THEN /\ mask_size(b_params') = 2 * mask_size(b_params)
                /\ b_params'.mask_offset = b_params.mask_offset
           ELSE \/ b_params'.mask_offset = b_params.mask_offset + 1
                \/ b_params'.mask_offset = 0 ]_vars

\* C17 (amended): when the seed range is exhausted, then while the word
\* width permits the window slides: seed becomes 0, mask is shifted left by
\* one, mask_offset grows by one and the table size stays; when it does not
\* permit and mask_offset >= 1, seed and mask_offset become 0 and the mask
\* widens by one bit, doubling the table size; when it does not permit and
\* mask_offset = 0, the step panics under overflow checks and otherwise
\* continues from seed 0, mask 1, mask_offset 0.
C17_SlideThenWiden ==
  [][ SeedRangeExhaustedStep =>
        IF WidthPermits(b_params)
        THEN /\ b_pc' = "running"
             /\ b_params'.seed = 0
             /\ b_params'.mask = 2 * b_params.mask
             /\ b_params'.mask_offset = b_params.mask_offset + 1
             /\ mask_size(b_params') = mask_size(b_params)
        ELSE IF b_params.mask_offset >= 1
        THEN /\ b_pc' = "running"
             /\ b_params'.seed = 0
             /\ b_params'.mask_offset = 0
             /\ mask_size(b_params') = 2 * mask_size(b_params)
             /\ b_params'.mask = mask_size(b_params') - 1
        ELSE IF b_checks
        THEN b_pc' = "panicked" /\ b_params' = b_params
        ELSE /\ b_pc' = "running"
             /\ b_params'.seed = 0
             /\ b_params'.mask = 1
             /\ b_params'.mask_offset = 0 ]_vars

\* the search has slid the 2-slot window to the top of the word and widened
\* the mask to 4 slots
C17_Witness ==
  /\ scenario = "builder"
  /\ b_pc = "running"
  /\ b_params.mask = 3 /\ b_params.mask_offset = 0 /\ b_params.seed = 0
  /\ b_left < b_max

PairwiseDistinct(keys, seed) ==
  \A i, j \in 1..Len(keys) :
    i < j => key_hash(keys[i], seed) # key_hash(keys[j], seed)

\* C19: the seed find_seed returned is at least 1 and below FIND_SEED_END,
\* the keys' hashes under it are pairwise distinct and under no smaller seed
\* from 1 on; find_seed panics only when no seed of the range separates the
\* keys.
C19_FindSeedLeast ==
  scenario = "seed_hash" =>
    /\ last.op = "find_seed" =>
         IF last.fault
         THEN \A seed \in 1..(FIND_SEED_END - 1) : ~PairwiseDistinct(last.key, seed)
         ELSE last.res = Some(v2_seed) /\ t_keys = last.key
    /\ t_keys # << >> =>
         /\ 1 <= v2_seed /\ v2_seed <= FIND_SEED_END - 1
         /\ PairwiseDistinct(t_keys, v2_seed)
         /\ \A seed \in 1..(v2_seed - 1) : ~PairwiseDistinct(t_keys, seed)

\* find_seed has returned 2 for "mon" and "day", which collide under seed 1
C19_Witness ==
  /\ scenario = "seed_hash"
  /\ last.op = "find_seed" /\ ~last.fault
  /\ t_keys = <<Str_mon, Str_day>>
  /\ key_hash(Str_mon, 1) = key_hash(Str_day, 1)
  /\ v2_seed = 2

\* the latest operation inserted a key b into the slot that holds the entry
\* (a, x) of an earlier insert of another key a with b's key_hash
EvictCase ==
  /\ InV2
  /\ last.op = "insert"
  /\ ~last.fault
  /\ last.pre # None
  /\ last.pre[1][1] # last.key
  /\ key_hash(last.pre[1][1], v2_seed) = key_hash(last.key, v2_seed)

\* C20 (as claimed): the colliding insert returns (a, x), get(b) then
\* returns y and get(a) is not found.
C20_EvictClaim ==
  EvictCase =>
    /\ last.res = Some(last.pre[1])
    /\ CurrentGet(last.key) = Some(last.val)
    /\ CurrentGet(last.pre[1][1]) = None

\* C20 (amended): the colliding insert returns (a, x) and get(a) is then not
\* found; get(b) returns y when b's byte length lies within key_bounds and
\* is not found otherwise.
C20_Evict ==
  EvictCase =>
    /\ last.res = Some(last.pre[1])
    /\ CurrentGet(last.pre[1][1]) = None
    /\ CurrentGet(last.key) =
         ( IF v2_bounds[1] <= Len(last.key) /\ Len(last.key) <= v2_bounds[2]
           THEN Some(last.val) ELSE None )

\* "ba" was inserted into the slot of "ab" under seed 1, both within bounds
C20_Witness ==
  /\ scenario = "v2"
  /\ EvictCase
  /\ v2_seed = 1 /\ v2_bounds = <<1, 2>>
  /\ last.key = Str_ba
  /\ last.pre[1][1] = Str_ab

\* C21 (as claimed): in the weight-table map a get that returns a value
\* returns one whose latest insert into the slot was made under the queried
\* key itself.
C21_GetOnlyOwnKey ==
  scenario = "lut" =>
    \A q \in LutStrings \cup DaysQueries :
      (~Vfhm_get_panics(DAYS, q) /\ Vfhm_get(lut_inner, DAYS, q) # None) =>
        /\ key_index(q, DAYS) \in DOMAIN g_written
        /\ g_written[key_index(q, DAYS)][1] = q

\* the index an insert or remove of the key works on
IndexOf(key) == IF InV2 THEN key_hash(key, v2_seed) ELSE key_index(key, DAYS)

\* C22: an insert or remove changes no slot but the one at its key's index
\* and leaves the seed and the bounds alone, and after any sequence of get,
\* insert and remove the slot array has the length it was constructed with.
C22_Frame ==
  /\ [][ ( /\ InV2 \/ scenario = "lut"
           /\ last'.op \in {"insert", "remove"} )
         => /\ v2_seed' = v2_seed /\ v2_bounds' = v2_bounds /\ v2_len' = v2_len
            /\ DOMAIN lut_inner' = DOMAIN lut_inner
            /\ \A i \in DOMAIN lut_inner :
                 (InV2 \/ last'.fault \/ i # IndexOf(last'.key)) =>
                   lut_inner'[i] = lut_inner[i]
            /\ \A i \in DOMAIN v2_inner \cup DOMAIN v2_inner' :
                 (~InV2 \/ last'.fault \/ i # IndexOf(last'.key)) =>
                   Slot(v2_inner', i) = Slot(v2_inner, i) ]_vars
  /\ []( /\ v2_len = KEY_MASK
         /\ \A i \in DOMAIN v2_inner : i < v2_len
         /\ DOMAIN lut_inner = 0..(SIZE - 1) )

\* remove("monday") emptied slot 0 while slot 4 keeps its value
C22_Witness ==
  /\ scenario = "lut"
  /\ last.op = "remove" /\ ~last.fault
  /\ last.key = Str_monday /\ last.res # None
  /\ lut_inner[0] = None
  /\ lut_inner[4] # None

\* C23 (as claimed): no step of the search makes the table smaller.
C23_SizeNeverDecreases ==
  [][ scenario = "builder" => mask_size(b_params') >= mask_size(b_params) ]_vars

\* C24 (as claimed): every index a v2 insert computes lies inside the slot
\* array, so no insert panics.
C24_IndexInRange ==
  (InV2 /\ last.op = "insert") =>
    /\ key_hash(last.key, v2_seed) < v2_len
    /\ ~last.fault

\* C25 (as claimed): the reset branch of the advance is taken with
\* mask_offset >= 1 only, the advance never overflows, and find_params
\* panics only when max_iterations is used up.
C25_AdvanceNeverFaults ==
  /\ [][ (SeedRangeExhaustedStep /\ ~WidthPermits(b_params)) =>
           b_params.mask_offset >= 1 ]_vars
  /\ [](scenario = "builder" => (b_pc = "panicked" => b_left = 0))

\* C26 (as claimed): the builder's bounds are the least and the greatest
\* byte length of the keys it holds.
C26_BoundsOfCurrentKeys ==
  (scenario = "builder" /\ Len(b_keys) >= 1) =>
    /\ \E i \in 1..Len(b_keys) : b_params.bounds[1] = Len(b_keys[i])
    /\ \A i \in 1..Len(b_keys) :
         b_params.bounds[1] <= Len(b_keys[i]) /\ Len(b_keys[i]) <= b_params.bounds[2]
    /\ \E i \in 1..Len(b_keys) : b_params.bounds[2] = Len(b_keys[i])

\* C27: a find_params(n) with n >= 1 called on a builder whose previous
\* find_params returned (and whose keys were not set again since) changes
\* neither seed, mask, mask_offset nor bounds, at the call or in its loop,
\* and returns.
C27_Idempotent ==
  /\ [][ ( /\ scenario = "builder"
           /\ b_from' = "returned"
           /\ b_max' >= 1
           /\ b_pc' \in {"running", "returned", "panicked"} ) =>
           /\ b_params' = b_params
           /\ b_keys' = b_keys
           /\ b_pc = "running" => b_pc' = "returned" ]_vars
  /\ [](( /\ scenario = "builder"
          /\ b_from = "returned"
          /\ b_max >= 1 ) => b_pc # "panicked")

\* the second find_params on three keys has returned on a table of 4 or
\* more slots
C27_Witness ==
  /\ scenario = "builder"
  /\ b_from = "returned"
  /\ b_pc = "returned"
  /\ b_max >= 1
  /\ Len(b_keys) = 3
  /\ mask_size(b_params) >= 4

====
